---- MODULE Spec2Model ----
(***************************************************************************)
(* Model of src/ptp-sender.py: GstreamerPtpSender, the AES67 sender that   *)
(* brings up one GStreamer pipeline per stream against a shared PTP clock. *)
(*                                                                         *)
(* The main thread runs __init__ (load_config) and start(); stop() is run  *)
(* by Python signal handlers and by the bus callback.  Python runs a       *)
(* signal handler between two bytecodes of the main thread, so a handler   *)
(* can begin while another invocation of stop() is in progress: the        *)
(* invocations of stop() form a stack, of which only the top one runs.     *)
(***************************************************************************)
EXTENDS Integers, Sequences, FiniteSets, TLC

VARIABLES
    config,       \* the configuration file and its content
    pc,           \* position of the main thread in __init__/start()
    ptp_inited,   \* GstNet.ptp_init has succeeded
    ptp_clock,    \* self.ptp_clock
    sync,         \* result of ptp_clock.wait_for_sync
    streams,      \* the local `streams` of start()
    pipelines,    \* self.pipelines
    bus,          \* messages posted on the pipelines' buses, not yet dispatched
    main_loop,    \* self.main_loop
    handlers,     \* signals whose handler is the lambda calling stop()
    stack,        \* invocations of stop() in progress, innermost last
    exitCode,     \* exit status of the process, Alive while it runs
    exitCause,    \* what ended the process
    deinits,      \* number of calls of GstNet.ptp_deinit
    trigger,      \* what invoked stop() first
    reported      \* the status on_clock_synced printed last

vars == <<config, pc, ptp_inited, ptp_clock, sync, streams, pipelines, bus,
          main_loop, handlers, stack, exitCode, exitCause, deinits, trigger,
          reported>>

----------------------------------------------------------------------------
(* Bounds of the model *)

\* channelCount and channelsPerReceiver of the runs of the whole program
MaxChannels == 3
MaxPerReceiver == 2
\* channelCount and channelsPerReceiver of the runs that end when
\* calculate_streams returns
MaxPartChannels == 10
MaxPartPerReceiver == 5
\* channelCount and channelsPerReceiver of the runs checked for progress
\* and of the runs with notifications or failing stops
MaxFairChannels == 2
MaxFairPerReceiver == 1
\* messages posted and not yet dispatched
MaxPending == 1
\* invocations of stop() in progress
MaxNest == 2

(* Program constants *)

Alive == -1
ExitOk == 0
ExitError == 1
\* status of a process that a signal ended: 128 + the signal's number
ExitSigint == 128 + 2
ExitSigterm == 128 + 15

BasePort == 5004

Files == {"ok", "missing", "badjson"}
DeviceModes == {"sender", "receiver", "absent"}
BaseOctets == {0, 254, 255}
Signals == {"SIGINT", "SIGTERM"}
MsgTypes == {"ERROR", "EOS", "WARNING", "STATE_CHANGED"}

\* the configuration files with the given bounds and last octets
ConfigsUpTo(channels, perReceiver, octets) ==
    [file : Files, deviceMode : DeviceModes,
     channelCount : -1 .. channels,
     channelsPerReceiver : -1 .. perReceiver,
     baseOctet : octets, rtpDestinationPort : {BasePort}]

Configs == ConfigsUpTo(MaxChannels, MaxPerReceiver, {254})

PartConfigs == ConfigsUpTo(MaxPartChannels, MaxPartPerReceiver, BaseOctets)

\* the configurations, with positive counts, of the runs checked for
\* progress and of the runs with notifications or failing stops
FairConfigs ==
    {c \in ConfigsUpTo(MaxFairChannels, MaxFairPerReceiver, {254}) :
        c.channelCount > 0 /\ c.channelsPerReceiver > 0}

----------------------------------------------------------------------------
(* Pure functions *)

Min(a, b) == IF a <= b THEN a ELSE b

\* Python's a // b, which rounds towards minus infinity; b # 0
FloorDiv(a, b) ==
    LET na == IF b > 0 THEN a ELSE -a
        nb == IF b > 0 THEN b ELSE -b
    IN  IF na >= 0 THEN na \div nb ELSE -((-na + nb - 1) \div nb)

\* a stream count that rounds down, dropping a last, shorter stream
NumStreamsFloor(channel_count, channels_per_receiver) ==
    FloorDiv(channel_count, channels_per_receiver)

\* num_streams of calculate_streams
NumStreams(channel_count, channels_per_receiver) ==
    FloorDiv(channel_count + channels_per_receiver - 1, channels_per_receiver)

\* a port that is the base port for every stream
PortOfBase(cfg, i) == cfg.rtpDestinationPort

\* 'port': base_port + i
PortOf(cfg, i) == cfg.rtpDestinationPort + i

\* the dictionary calculate_streams appends for i; of the address only the
\* last octet changes, int(addr_parts[3]) + i written back in decimal
StreamOf(cfg, i) ==
    LET start_channel == i * cfg.channelsPerReceiver
        end_channel == Min(start_channel + cfg.channelsPerReceiver,
                           cfg.channelCount)
    IN  [index |-> i,
         multicast |-> cfg.baseOctet + i,
         port |-> PortOf(cfg, i),
         channels |-> end_channel - start_channel,
         start_channel |-> start_channel + 1]

\* calculate_streams; range(n) is empty for n <= 0
calculate_streams(cfg) ==
    LET n == NumStreams(cfg.channelCount, cfg.channelsPerReceiver)
    IN  [j \in 1 .. (IF n > 0 THEN n ELSE 0) |-> StreamOf(cfg, j - 1)]

----------------------------------------------------------------------------
\* the state after the construction of the object, before load_config
Start ==
    /\ pc = "load_config"
    /\ ptp_inited = FALSE
    /\ ptp_clock = "None"
    /\ sync = "none"
    /\ streams = <<>>
    /\ pipelines = <<>>
    /\ bus = {}
    /\ main_loop = "None"
    /\ handlers = {}
    /\ stack = <<>>
    /\ exitCode = Alive
    /\ exitCause = "none"
    /\ deinits = 0
    /\ trigger = "none"
    /\ reported = "none"

Init ==
    /\ config \in Configs
    /\ Start

\* the process ends with the given status
Exit(code, cause) ==
    /\ exitCode' = code
    /\ exitCause' = cause
    /\ pc' = "exit"

\* the main thread is at position p and no handler is running
AtMain(p) ==
    /\ exitCode = Alive
    /\ stack = <<>>
    /\ pc = p

\* a test of the mode that lets an absent deviceMode pass
ModeRejectedOnlyReceiver(cfg) == cfg.deviceMode = "receiver"

\* load_config raises ValueError("Configuration must be for sender mode");
\* config.get yields None for an absent key
ModeRejected(cfg) == cfg.deviceMode # "sender"

\* __init__ / load_config: a missing file and invalid JSON exit with status
\* 1, the ValueError is caught nowhere and ends the process with status 1
LoadConfig ==
    /\ AtMain("load_config")
    /\ IF config.file = "missing" THEN Exit(ExitError, "FileNotFoundError")
       ELSE IF config.file = "badjson" THEN Exit(ExitError, "JSONDecodeError")
       ELSE IF ModeRejected(config) THEN Exit(ExitError, "ValueError")
       ELSE /\ pc' = "ptp_init"
            /\ UNCHANGED <<exitCode, exitCause>>
    /\ UNCHANGED <<reported, config, ptp_inited, ptp_clock, sync, streams, pipelines, bus,
                   main_loop, handlers, stack, deinits, trigger>>

\* init_ptp_clock, GstNet.ptp_init: the subsystem starts or does not
PtpInit ==
    /\ AtMain("ptp_init")
    /\ \E ok \in BOOLEAN :
        IF ok
        THEN /\ ptp_inited' = TRUE
             /\ pc' = "ptp_new"
             /\ UNCHANGED <<exitCode, exitCause>>
        ELSE /\ Exit(ExitError, "ptp_init")
             /\ UNCHANGED ptp_inited
    /\ UNCHANGED <<reported, config, ptp_clock, sync, streams, pipelines, bus, main_loop,
                   handlers, stack, deinits, trigger>>

\* a start() that goes on without a clock
ClockMissingIgnored(clock) == FALSE

\* init_ptp_clock: `if not self.ptp_clock`, which makes start() exit
ClockMissing(clock) == clock = "None"

\* init_ptp_clock, GstNet.PtpClock.new: a clock or None
PtpClockNew ==
    /\ AtMain("ptp_new")
    /\ \E clock \in {"None", "PTPClock"} :
        /\ ptp_clock' = clock
        /\ IF ClockMissing(clock)
           THEN Exit(ExitError, "PtpClock.new")
           ELSE /\ pc' = "wait_for_sync"
                /\ UNCHANGED <<exitCode, exitCause>>
    /\ UNCHANGED <<reported, config, ptp_inited, sync, streams, pipelines, bus, main_loop,
                   handlers, stack, deinits, trigger>>

\* an init_ptp_clock that returns False on a timeout
SyncReturnStrict(outcome) == outcome = "synced"

\* what init_ptp_clock returns once wait_for_sync has returned `outcome`
SyncReturn(outcome) == outcome \in {"synced", "timeout"}

\* init_ptp_clock, wait_for_sync, and the test of its result in start()
WaitForSync ==
    /\ AtMain("wait_for_sync")
    /\ \E outcome \in {"synced", "timeout"} :
        /\ sync' = outcome
        /\ IF SyncReturn(outcome)
           THEN /\ pc' = "calculate_streams"
                /\ UNCHANGED <<exitCode, exitCause>>
           ELSE Exit(ExitError, "wait_for_sync")
    /\ UNCHANGED <<reported, config, ptp_inited, ptp_clock, streams, pipelines, bus,
                   main_loop, handlers, stack, deinits, trigger>>

\* start(): streams = self.calculate_streams(); a zero divisor raises
CalculateStreams ==
    /\ AtMain("calculate_streams")
    /\ IF config.channelsPerReceiver = 0
       THEN /\ Exit(ExitError, "ZeroDivisionError")
            /\ UNCHANGED streams
       ELSE /\ streams' = calculate_streams(config)
            /\ pc' = "create_pipeline"
            /\ UNCHANGED <<exitCode, exitCause>>
    /\ UNCHANGED <<reported, config, ptp_inited, ptp_clock, sync, pipelines, bus,
                   main_loop, handlers, stack, deinits, trigger>>

\* the pipeline create_pipeline returns for a stream
NewPipeline(stream) ==
    [index |-> stream.index, clock |-> ptp_clock, base_time |-> TRUE,
     state |-> "NULL", played |-> FALSE, nulls |-> 0]

\* a list that takes the new pipeline at its front
AddPipelineFront(list, pipeline) == <<pipeline>> \o list

\* self.pipelines.append(pipeline)
AddPipeline(list, pipeline) == Append(list, pipeline)

\* start(): the loop over streams, create_pipeline and append; after the
\* last stream the loop ends
CreatePipeline ==
    /\ AtMain("create_pipeline")
    /\ IF Len(pipelines) = Len(streams)
       THEN /\ pc' = "main_loop"
            /\ UNCHANGED <<pipelines, exitCode, exitCause>>
       ELSE \E built \in BOOLEAN :
              IF built
              THEN /\ pipelines' =
                        AddPipeline(pipelines,
                                    NewPipeline(streams[Len(pipelines) + 1]))
                   /\ pc' = "set_state"
                   /\ UNCHANGED <<exitCode, exitCause>>
              ELSE /\ Exit(ExitError, "create_pipeline")
                   /\ UNCHANGED pipelines
    /\ UNCHANGED <<reported, config, ptp_inited, ptp_clock, sync, streams, bus, main_loop,
                   handlers, stack, deinits, trigger>>

\* a start() that goes on to the next stream after a FAILURE
StartFailureIgnored ==
    /\ pc' = "create_pipeline"
    /\ UNCHANGED <<exitCode, exitCause>>

\* what start() does when set_state(PLAYING) returns FAILURE
StartFailure ==
    Exit(ExitError, "set_state")

\* start(): pipeline.set_state(Gst.State.PLAYING) on the pipeline just built
SetPlaying ==
    /\ AtMain("set_state")
    /\ \E ret \in {"SUCCESS", "FAILURE"} :
        LET k == Len(pipelines) IN
        /\ pipelines' =
             [pipelines EXCEPT ![k].played = TRUE,
                               ![k].state = IF ret = "FAILURE" THEN "NULL"
                                            ELSE "PLAYING"]
        /\ IF ret = "FAILURE"
           THEN StartFailure
           ELSE /\ pc' = "create_pipeline"
                /\ UNCHANGED <<exitCode, exitCause>>
    /\ UNCHANGED <<reported, config, ptp_inited, ptp_clock, sync, streams, bus, main_loop,
                   handlers, stack, deinits, trigger>>

\* start(): self.main_loop = GLib.MainLoop()
NewMainLoop ==
    /\ AtMain("main_loop")
    /\ main_loop' = "created"
    /\ pc' = "signal_sigint"
    /\ UNCHANGED <<reported, config, ptp_inited, ptp_clock, sync, streams, pipelines, bus,
                   handlers, stack, exitCode, exitCause, deinits,
                   trigger>>

\* start(): signal.signal(SIGINT, ...) and then signal.signal(SIGTERM, ...)
RegisterHandler ==
    /\ exitCode = Alive
    /\ stack = <<>>
    /\ \/ /\ pc = "signal_sigint"
          /\ handlers' = handlers \cup {"SIGINT"}
          /\ pc' = "signal_sigterm"
       \/ /\ pc = "signal_sigterm"
          /\ handlers' = handlers \cup {"SIGTERM"}
          /\ pc' = "run_enter"
    /\ UNCHANGED <<reported, config, ptp_inited, ptp_clock, sync, streams, pipelines, bus,
                   main_loop, stack, exitCode, exitCause, deinits,
                   trigger>>

\* start(): self.main_loop.run()
RunMainLoop ==
    /\ AtMain("run_enter")
    /\ main_loop' = "running"
    /\ pc' = "run"
    /\ UNCHANGED <<reported, config, ptp_inited, ptp_clock, sync, streams, pipelines, bus,
                   handlers, stack, exitCode, exitCause, deinits,
                   trigger>>

----------------------------------------------------------------------------
(* stop(), and what invokes it *)

\* a new invocation of stop(), at its first statement
StopFrame == [i |-> 0, at |-> "loop"]

\* stop() is invoked because of `by`
InvokeStop(by) ==
    /\ stack' = Append(stack, StopFrame)
    /\ trigger' = IF trigger = "none" THEN by ELSE trigger

\* the exit status stop() ends the process with
StopStatus == ExitOk

\* A signal is delivered.  Until start() has installed its lambda the
\* default disposition applies: SIGINT raises KeyboardInterrupt in the main
\* thread, which nothing catches outside main_loop.run(), and SIGTERM ends
\* the process.  Afterwards the lambda runs stop(), also when stop() is
\* already running.
Signal ==
    /\ exitCode = Alive
    /\ \E sig \in Signals :
        IF sig \in handlers
        THEN /\ Len(stack) < MaxNest
             /\ InvokeStop(sig)
             /\ UNCHANGED <<pc, exitCode, exitCause>>
        ELSE /\ stack = <<>>
             /\ IF sig = "SIGINT"
                THEN \E code \in {ExitError, ExitSigint} :
                        Exit(code, "KeyboardInterrupt")
                ELSE Exit(ExitSigterm, "SIGTERM")
             /\ UNCHANGED <<stack, trigger>>
    /\ UNCHANGED <<reported, config, ptp_inited, ptp_clock, sync, streams, pipelines, bus,
                   main_loop, handlers, deinits>>

\* a playing pipeline posts a message on its bus
PostMessage ==
    /\ exitCode = Alive
    /\ Cardinality(bus) < MaxPending
    /\ \E k \in 1 .. Len(pipelines), t \in MsgTypes :
        /\ pipelines[k].state = "PLAYING"
        /\ bus' = bus \cup {<<pipelines[k].index, t>>}
    /\ UNCHANGED <<reported, config, pc, ptp_inited, ptp_clock, sync, streams, pipelines,
                   main_loop, handlers, stack, exitCode, exitCause, deinits, trigger>>

\* an on_bus_message that calls stop() for EOS only
EscalatesOnlyEos(t) == t = "EOS"

\* an on_bus_message that calls stop() for a warning too
EscalatesWarning(t) == t \in {"ERROR", "EOS", "WARNING"}

\* on_bus_message: the message types whose branch calls self.stop()
Escalates(t) == t \in {"ERROR", "EOS"}

\* a main context that dispatches the buses' watches at any time
LoopDispatchesAlways == TRUE

\* the watches of the buses are dispatched by main_loop.run() alone
LoopDispatches == pc = "run" /\ main_loop = "running"

\* on_bus_message for the message m = <<stream_index, type>>, which the
\* running main loop dispatches; the STATE_CHANGED branch reads
\* self.pipelines[stream_index] and changes nothing
Dispatch(m) ==
    /\ exitCode = Alive
    /\ stack = <<>>
    /\ LoopDispatches
    /\ m \in bus
    /\ LET t == m[2]
       IN  /\ bus' = bus \ {m}
           /\ IF Escalates(t)
              THEN InvokeStop(t)
              ELSE UNCHANGED <<stack, trigger>>
    /\ UNCHANGED <<reported, config, pc, ptp_inited, ptp_clock, sync, streams, pipelines,
                   main_loop, handlers, exitCode, exitCause, deinits>>

\* the running main loop dispatches one of the posted messages
OnBusMessage == \E m \in bus : Dispatch(m)

\* the innermost invocation of stop()
Top == stack[Len(stack)]

\* a loop that leaves out the last pipeline
LoopContinuesButLast(i) == i < Len(pipelines) - 1

\* stop(): the loop over self.pipelines has a next element
LoopContinues(i) == i < Len(pipelines)

\* the innermost invocation of stop() moves to `at`
Goto(at) == stack' = [stack EXCEPT ![Len(stack)].at = at]

\* stop(): one turn of the loop, pipeline.set_state(Gst.State.NULL), which
\* brings the pipeline to NULL
StopPipeline ==
    /\ exitCode = Alive
    /\ stack # <<>>
    /\ Top.at = "loop"
    /\ LoopContinues(Top.i)
    /\ pipelines' = [pipelines EXCEPT ![Top.i + 1].state = "NULL",
                                      ![Top.i + 1].nulls = @ + 1]
    /\ stack' = [stack EXCEPT ![Len(stack)].i = @ + 1]
    /\ UNCHANGED <<reported, config, pc, ptp_inited, ptp_clock, sync, streams, bus,
                   main_loop, handlers, exitCode, exitCause, deinits, trigger>>

\* a stop() that a failed set_state(NULL) makes leave its loop and end
StopFailureAborts(frame) == [frame EXCEPT !.at = "exit"]

\* stop() ignores what set_state(NULL) returns: the loop goes on
StopFailureGoesOn(frame) == [frame EXCEPT !.i = @ + 1]

\* stop(): one turn of the loop in which set_state(Gst.State.NULL) returns
\* FAILURE and the pipeline stays in its state
StopPipelineFails ==
    /\ exitCode = Alive
    /\ stack # <<>>
    /\ Top.at = "loop"
    /\ LoopContinues(Top.i)
    /\ pipelines' = [pipelines EXCEPT ![Top.i + 1].nulls = @ + 1]
    /\ stack' = [stack EXCEPT ![Len(stack)] = StopFailureGoesOn(@)]
    /\ UNCHANGED <<reported, config, pc, ptp_inited, ptp_clock, sync, streams,
                   bus, main_loop, handlers, exitCode, exitCause, deinits,
                   trigger>>

\* stop(): after the loop, quit the main loop if it is running
StopQuit ==
    /\ exitCode = Alive
    /\ stack # <<>>
    /\ Top.at = "loop"
    /\ ~LoopContinues(Top.i)
    /\ main_loop' = IF main_loop = "running" THEN "quit" ELSE main_loop
    /\ Goto("deinit")
    /\ UNCHANGED <<reported, config, pc, ptp_inited, ptp_clock, sync, streams, pipelines,
                   bus, handlers, exitCode, exitCause, deinits,
                   trigger>>

\* stop(): GstNet.ptp_deinit() if there is a clock
StopDeinit ==
    /\ exitCode = Alive
    /\ stack # <<>>
    /\ Top.at = "deinit"
    /\ deinits' = IF ptp_clock # "None" THEN deinits + 1 ELSE deinits
    /\ Goto("exit")
    /\ UNCHANGED <<reported, config, pc, ptp_inited, ptp_clock, sync, streams, pipelines,
                   bus, main_loop, handlers, exitCode, exitCause,
                   trigger>>

\* stop(): sys.exit(0)
StopExit ==
    /\ exitCode = Alive
    /\ stack # <<>>
    /\ Top.at = "exit"
    /\ Exit(StopStatus, "stop")
    /\ UNCHANGED <<reported, config, ptp_inited, ptp_clock, sync, streams, pipelines, bus,
                   main_loop, handlers, stack, deinits, trigger>>

----------------------------------------------------------------------------
Next ==
    \/ LoadConfig
    \/ PtpInit
    \/ PtpClockNew
    \/ WaitForSync
    \/ CalculateStreams
    \/ CreatePipeline
    \/ SetPlaying
    \/ NewMainLoop
    \/ RegisterHandler
    \/ RunMainLoop
    \/ Signal
    \/ PostMessage
    \/ OnBusMessage
    \/ StopPipeline
    \/ StopQuit
    \/ StopDeinit
    \/ StopExit

Spec == Init /\ [][Next]_vars

\* the runs of the program up to the return of calculate_streams, over a
\* wider range of configurations
InitPartition ==
    /\ config \in PartConfigs
    /\ Start

NextPartition ==
    \/ LoadConfig
    \/ PtpInit
    \/ PtpClockNew
    \/ WaitForSync
    \/ CalculateStreams
    \/ Signal

SpecPartition == InitPartition /\ [][NextPartition]_vars

InitFair ==
    /\ config \in FairConfigs
    /\ Start

\* on_clock_synced: the clock's "synced" signal, connected once the clock
\* exists, reports that synchronisation was gained or lost
OnClockSynced ==
    /\ exitCode = Alive
    /\ ptp_clock = "PTPClock"
    /\ deinits = 0
    /\ \E synced \in BOOLEAN :
          reported' = IF synced THEN "synced" ELSE "lost"
    /\ UNCHANGED <<config, pc, ptp_inited, ptp_clock, sync, streams, pipelines,
                   bus, main_loop, handlers, stack, exitCode, exitCause,
                   deinits, trigger>>

\* The runs with the clock's notifications.  on_clock_synced changes
\* nothing but what it prints, so the other specifications leave it out.
NextNotify ==
    \/ Next
    \/ OnClockSynced

SpecNotify == InitFair /\ [][NextNotify]_vars

\* The runs in which set_state(NULL) may fail.  stop() does not look at
\* what set_state returns, so the other specifications leave the failure
\* out.
NextStop ==
    \/ Next
    \/ StopPipelineFails

SpecStop == InitFair /\ [][NextStop]_vars

\* the most streams a configuration of the runs yields
MaxStreams ==
    LET lens == {Len(calculate_streams(c)) :
                    c \in {d \in Configs \cup FairConfigs :
                              d.channelsPerReceiver # 0}}
    IN  CHOOSE n \in lens : \A l \in lens : l <= n

\* the messages a bus can carry
Messages == (0 .. MaxStreams - 1) \X MsgTypes

\* The main thread goes on running: an invocation of stop() that has begun
\* takes its next step, and the running main loop dispatches every message
\* that stays posted.
Fairness ==
    /\ WF_vars(StopPipeline)
    /\ WF_vars(StopQuit)
    /\ WF_vars(StopDeinit)
    /\ WF_vars(StopExit)
    /\ \A m \in Messages : WF_vars(Dispatch(m))

FairSpec == InitFair /\ [][Next]_vars /\ Fairness


TypeOK ==
    /\ config \in Configs \cup PartConfigs \cup FairConfigs
    /\ ptp_inited \in BOOLEAN
    /\ ptp_clock \in {"None", "PTPClock"}
    /\ sync \in {"none", "synced", "timeout"}
    /\ main_loop \in {"None", "created", "running", "quit"}
    /\ handlers \subseteq Signals
    /\ exitCode \in {Alive, ExitOk, ExitError, ExitSigint, ExitSigterm}
    /\ deinits \in Nat
    /\ Len(stack) <= MaxNest
    /\ Cardinality(bus) <= MaxPending
    /\ reported \in {"none", "synced", "lost"}

----------------------------------------------------------------------------
(* Properties *)

\* positions of start() after calculate_streams has returned
AfterPartition ==
    {"create_pipeline", "set_state", "main_loop", "signal_sigint",
     "signal_sigterm", "run_enter", "run"}

\* positions of start() after the loop over streams has ended
AfterStartup ==
    {"main_loop", "signal_sigint", "signal_sigterm", "run_enter", "run"}

\* calculate_streams has returned in this run
Partitioned == pc \in AfterPartition \/ streams # <<>> \/ pipelines # <<>>

\* the loop of start() has ended normally in this run
StartedUp == pc \in AfterStartup \/ main_loop # "None"

Stopped(k) == pipelines[k].nulls >= 1

\* the configuration has the positive counts the data model asks for
ValidCounts == config.channelCount > 0 /\ config.channelsPerReceiver > 0

\* C1: whatever triggers arrive, the stop-all sequence runs once: no
\* pipeline is stopped a second time and the clock is released at most once.
C1_StopAllOnce ==
    ValidCounts =>
        /\ deinits <= 1
        /\ \A k \in 1 .. Len(pipelines) : pipelines[k].nulls <= 1

\* C2: when set_state(PLAYING) fails for a stream the process exits
\* non-zero after stopping every pipeline started before it.
C2_StartFailureShutsDown ==
    (ValidCounts /\ exitCause = "set_state") =>
        /\ exitCode # ExitOk
        /\ \A k \in 1 .. Len(pipelines) - 1 : Stopped(k)

\* C3: when create_pipeline raises for a stream the process exits with
\* status 1 after stopping every pipeline started before it.
C3_BuildFailureShutsDown ==
    (ValidCounts /\ exitCause = "create_pipeline") =>
        /\ exitCode = ExitError
        /\ \A k \in 1 .. Len(pipelines) : Stopped(k)

\* C4: a shutdown that a signal or an EndOfStream event triggered exits
\* with status 0, one that a pipeline Error event triggered exits non-zero.
C4_StatusFollowsTrigger ==
    (ValidCounts /\ exitCause = "stop") =>
        /\ trigger \in Signals \cup {"EOS"} => exitCode = ExitOk
        /\ trigger = "ERROR" => exitCode # ExitOk

\* C5: a pipeline exists only once ptp_init has succeeded, the clock exists
\* and wait_for_sync has returned; a pipeline that was started had been
\* built with the shared clock and its base time; and a failure of ptp_init
\* or of the clock's creation ends the process with status 1 and no
\* pipeline.
C5_ClockThenBuildThenStart ==
    /\ (pipelines # <<>> \/ pc \in {"create_pipeline", "set_state"}) =>
          ptp_inited /\ ptp_clock = "PTPClock" /\ sync # "none"
    /\ \A k \in 1 .. Len(pipelines) :
          /\ pipelines[k].clock = "PTPClock"
          /\ pipelines[k].base_time
          /\ pipelines[k].index = k - 1
    /\ \A k \in 1 .. Len(pipelines) - 1 : pipelines[k].played
    /\ (~ptp_inited \/ ptp_clock = "None") => pipelines = <<>>
    /\ exitCause \in {"ptp_init", "PtpClock.new"} =>
          pipelines = <<>> /\ exitCode = ExitError

C5_Witness ==
    /\ ValidCounts
    /\ Len(pipelines) >= 2
    /\ pipelines[2].played
    /\ pipelines[2].state = "PLAYING"

\* C6: the clock is released only by an invocation of stop() that has
\* issued a stop to every pipeline of self.pipelines; whenever the clock has
\* been released every pipeline has been stopped.
C6_StopsBeforeRelease ==
    /\ deinits > 0 => \A k \in 1 .. Len(pipelines) : Stopped(k)
    /\ \A f \in 1 .. Len(stack) :
          stack[f].at \in {"deinit", "exit"} => stack[f].i = Len(pipelines)

C6_Witness ==
    /\ ValidCounts
    /\ deinits > 0
    /\ Len(pipelines) >= 2

\* C7: after a timeout of wait_for_sync startup goes on: the process is
\* not ended by the clock, the channels are partitioned, and once the loop
\* of start() has ended every stream has a pipeline that was started.
C7_TimeoutContinues ==
    sync = "timeout" =>
        /\ exitCause \notin {"ptp_init", "PtpClock.new", "wait_for_sync"}
        /\ pc # "wait_for_sync"
        /\ StartedUp =>
              /\ streams = calculate_streams(config)
              /\ Len(pipelines) = Len(streams)
              /\ \A k \in 1 .. Len(pipelines) : pipelines[k].played

C7_Witness ==
    /\ ValidCounts
    /\ sync = "timeout"
    /\ pc = "run"
    /\ Len(pipelines) >= 2
    /\ \A k \in 1 .. Len(pipelines) : pipelines[k].state = "PLAYING"

\* C8: with a deviceMode other than "sender", absent included, loading the
\* configuration fails and the process ends with an error status; ptp_init
\* is never reached and no pipeline is built.
C8_NotSenderNeverInits ==
    (config.file = "ok" /\ config.deviceMode # "sender") =>
        /\ pc \in {"load_config", "exit"}
        /\ ~ptp_inited
        /\ ptp_clock = "None"
        /\ pipelines = <<>>
        /\ pc = "exit" => exitCode # ExitOk

C8_Witness ==
    /\ config.file = "ok"
    /\ config.deviceMode = "absent"
    /\ exitCause = "ValueError"
    /\ exitCode = ExitError

\* the least n with n * b >= a, for a > 0 and b > 0
Ceil(a, b) == CHOOSE n \in 1 .. a : n * b >= a /\ (n - 1) * b < a

RECURSIVE SumChannels(_, _)
SumChannels(ss, n) ==
    IF n = 0 THEN 0 ELSE SumChannels(ss, n - 1) + ss[n].channels

\* C9: for channelCount > 0 and channelsPerReceiver > 0 calculate_streams
\* returns ceil(channelCount / channelsPerReceiver) descriptors, indexed
\* 0..n-1 in order; the first starts at channel 1, each later one right
\* after the previous one's last channel; each carries 1 to
\* channelsPerReceiver channels, only the last possibly fewer; the channel
\* counts add up to channelCount.
C9_PartitionCovers ==
    (Partitioned /\ config.channelCount > 0
                 /\ config.channelsPerReceiver > 0) =>
        LET n == Len(streams)
            per == config.channelsPerReceiver
        IN  /\ n = Ceil(config.channelCount, per)
            /\ \A j \in 1 .. n :
                  /\ streams[j].index = j - 1
                  /\ streams[j].channels >= 1
                  /\ streams[j].channels <= per
                  /\ j < n => streams[j].channels = per
                  /\ j > 1 => streams[j].start_channel =
                                 streams[j - 1].start_channel
                                 + streams[j - 1].channels
            /\ streams[1].start_channel = 1
            /\ SumChannels(streams, n) = config.channelCount

C9_Witness ==
    /\ Partitioned
    /\ config.channelCount = 10
    /\ config.channelsPerReceiver = 4
    /\ Len(streams) = 3
    /\ streams[3].channels = 2
    /\ streams[3].start_channel = 9

\* C10: with channelCount <= 0 or channelsPerReceiver <= 0 the partition
\* fails: calculate_streams never returns, so start() never goes on to the
\* pipelines or the run loop.
C10_BadCountsRejected ==
    (config.channelCount <= 0 \/ config.channelsPerReceiver <= 0) =>
        ~Partitioned

\* C11: every descriptor calculate_streams returns has a last octet of
\* (base octet + index) mod 256, which lies in 0..255.
C11_OctetWraps ==
    (Partitioned /\ ValidCounts) =>
        \A j \in 1 .. Len(streams) :
            /\ streams[j].multicast = (config.baseOctet + streams[j].index) % 256
            /\ streams[j].multicast \in 0 .. 255

\* C12: the descriptor of index i has port basePort + i, so the ports grow
\* strictly with the index and no two streams have the same address and
\* port.
C12_PortsByIndex ==
    Partitioned =>
        /\ \A j \in 1 .. Len(streams) :
              streams[j].port = config.rtpDestinationPort + streams[j].index
        /\ \A j, k \in 1 .. Len(streams) :
              j < k =>
                 /\ streams[j].port < streams[k].port
                 /\ <<streams[j].multicast, streams[j].port>> #
                       <<streams[k].multicast, streams[k].port>>

C12_Witness ==
    /\ Partitioned
    /\ ValidCounts
    /\ Len(streams) >= 3
    /\ streams[3].port = config.rtpDestinationPort + 2

\* the process has ended by stop() with every pipeline stopped, the clock
\* released and the main loop quit
ShutDown ==
    /\ exitCode # Alive
    /\ exitCause = "stop"
    /\ \A k \in 1 .. Len(pipelines) : Stopped(k)
    /\ deinits >= 1
    /\ main_loop = "quit"

\* a signal has invoked stop(), or an ERROR or EOS message is posted,
\* while the main loop runs
Triggered ==
    /\ pc = "run"
    /\ exitCode = Alive
    /\ \/ stack # <<>>
       \/ \E m \in bus : m[2] \in {"ERROR", "EOS"}

\* C13: while the main loop runs, a signal or an ERROR or EOS message of a
\* pipeline leads to the process having exited with every pipeline stopped,
\* the clock released and the main loop quit.
C13_TriggerLeadsToShutDown == Triggered ~> ShutDown

C13_Witness ==
    /\ ShutDown
    /\ ValidCounts
    /\ trigger = "ERROR"
    /\ Len(pipelines) >= 2

\* the process was ended by a signal: by its default disposition, or by
\* the stop() a signal invoked
EndedBySignal ==
    /\ exitCode # Alive
    /\ \/ exitCause \in {"KeyboardInterrupt", "SIGTERM"}
       \/ exitCause = "stop" /\ trigger \in Signals

\* C14: when a signal ends the process, every pipeline that was started has
\* been given a stop call.
C14_SignalStopsStarted ==
    (ValidCounts /\ EndedBySignal) =>
        \A k \in 1 .. Len(pipelines) : pipelines[k].played => Stopped(k)

\* C15: when the process ends after a failure of the clock's creation, of
\* a build or of a start, or by stop(), the subsystem has been released
\* exactly once if ptp_init had succeeded, and never otherwise.
C15_ReleasedOnce ==
    (ValidCounts /\ exitCause \in {"PtpClock.new", "create_pipeline",
                                   "set_state", "stop"}) =>
        deinits = IF ptp_inited THEN 1 ELSE 0

\* a WARNING or STATE_CHANGED message is handled in this step
QuietMessageHandled ==
    \E m \in bus : m[2] \in {"WARNING", "STATE_CHANGED"} /\ m \notin bus'

\* on_clock_synced runs in this step
SyncReported == reported' # reported

\* C16: handling a WARNING or STATE_CHANGED message or a notification of
\* the clock leaves the pipelines, the clock, the main loop and the main
\* thread as they are and invokes no stop().
C16_NoEscalation ==
    [][(QuietMessageHandled \/ SyncReported) =>
          UNCHANGED <<pipelines, ptp_inited, ptp_clock, main_loop, stack,
                      trigger, deinits, pc, exitCode, exitCause, handlers>>]_vars

C16_Witness ==
    /\ ValidCounts
    /\ reported = "lost"
    /\ pc = "run"
    /\ main_loop = "running"
    /\ stack = <<>>
    /\ Len(pipelines) >= 2
    /\ \A k \in 1 .. Len(pipelines) : pipelines[k].state = "PLAYING"

\* C17: stop() issues its stops in ascending index order; a stop that
\* fails keeps stop() neither from stopping the pipelines after it nor from
\* releasing the clock, and stop() still ends by its own exit.
C17_BestEffortStop ==
    /\ \A k \in 1 .. Len(pipelines) - 1 :
          pipelines[k].nulls >= pipelines[k + 1].nulls
    /\ \A f \in 1 .. Len(stack) :
          /\ \A k \in 1 .. stack[f].i : Stopped(k)
          /\ stack[f].at \in {"deinit", "exit"} => stack[f].i = Len(pipelines)
          /\ stack[f].at = "exit" => deinits >= 1
    /\ exitCause = "stop" =>
          /\ \A k \in 1 .. Len(pipelines) : Stopped(k)
          /\ deinits >= 1
          /\ exitCode = ExitOk

C17_Witness ==
    /\ ValidCounts
    /\ exitCause = "stop"
    /\ Len(pipelines) >= 2
    /\ pipelines[1].state = "PLAYING"
    /\ pipelines[1].nulls = 1
    /\ pipelines[2].state = "NULL"
    /\ deinits = 1

\* C18: while start() is before the end of its loop over the streams no
\* stop() runs and none can be invoked by a signal; a stop() that runs
\* finds a pipeline for every stream.
C18_NoStopDuringStartup ==
    /\ ~StartedUp => stack = <<>> /\ handlers = {} /\ trigger = "none"
    /\ stack # <<>> => Len(pipelines) = Len(streams)

C18_Witness ==
    /\ ValidCounts
    /\ pc = "create_pipeline"
    /\ Len(pipelines) >= 1
    /\ Len(pipelines) < Len(streams)
    /\ \E m \in bus : m[2] = "ERROR"
    /\ stack = <<>>

\* C19: the pipelines are built in the order of the descriptors; while the
\* loop of start() runs every pipeline before the newest one was started
\* and is playing; once the loop has ended every stream has its pipeline and
\* all were started, so the main loop never runs over fewer playing
\* pipelines than streams unless a stop() has begun.
C19_OneByOneAllOrNothing ==
    /\ Len(pipelines) <= Len(streams)
    /\ \A k \in 1 .. Len(pipelines) : pipelines[k].index = streams[k].index
    /\ \A k \in 1 .. Len(pipelines) - 1 : pipelines[k].played
    /\ pc \in {"create_pipeline", "set_state"} =>
          \A k \in 1 .. Len(pipelines) - 1 : pipelines[k].state = "PLAYING"
    /\ pc = "create_pipeline" =>
          \A k \in 1 .. Len(pipelines) : pipelines[k].state = "PLAYING"
    /\ StartedUp =>
          /\ Len(pipelines) = Len(streams)
          /\ \A k \in 1 .. Len(pipelines) : pipelines[k].played
          /\ stack = <<>> =>
                \A k \in 1 .. Len(pipelines) : pipelines[k].state = "PLAYING"

C19_Witness ==
    /\ ValidCounts
    /\ pc = "run"
    /\ main_loop = "running"
    /\ stack = <<>>
    /\ Len(pipelines) = 3
    /\ \A k \in 1 .. 3 : pipelines[k].state = "PLAYING"

\* the entry self.pipelines[stream_index] exists and is the pipeline built
\* for the stream of that index
LookupFinds(stream_index) ==
    /\ stream_index + 1 \in 1 .. Len(pipelines)
    /\ pipelines[stream_index + 1].index = stream_index

\* C20: for every message that can be dispatched self.pipelines holds, at
\* the message's stream index, the pipeline built for that stream; the list
\* only grows at its end, also once stop() has run.
C20_LookupInRange ==
    /\ [](\A m \in bus : LookupFinds(m[1]))
    /\ [][/\ Len(pipelines') >= Len(pipelines)
          /\ \A k \in 1 .. Len(pipelines) :
                pipelines'[k].index = pipelines[k].index]_vars

C20_Witness ==
    /\ ValidCounts
    /\ pc = "run"
    /\ main_loop = "running"
    /\ stack = <<>>
    /\ Len(pipelines) = 3
    /\ <<2, "STATE_CHANGED">> \in bus

====
